---- MODULE Spec2Model ----
(***************************************************************************)
(* Snake (src/main.cpp): the game session driven by the frame loop of      *)
(* main().  One frame = poll the pending events, at most one tick of the   *)
(* snake, then the render phase, which holds the high-score update.        *)
(*                                                                         *)
(* The grid size (COLS x ROWS, 40 x 30 in the source) is a state variable  *)
(* that never changes after Init, so that the same actions can be checked  *)
(* on small grids.  The wall-clock accumulator acc/dt is abstracted: a     *)
(* tick may or may not be due in a frame.  The model covers the frames of  *)
(* an open window; closing the window only ends the loop.  Floats are      *)
(* IEEE-754 binary32, kept as <<m, e>> meaning m * 2^(-e) with             *)
(* 2^23 <= m < 2^24.                                                       *)
(*                                                                         *)
(* Spec is the whole game.  SpecSpeed follows the tick interval alone over *)
(* the consumptions of a session, far beyond the number of cells of the    *)
(* small grids.  saves, eaten, op and pre are history variables: they      *)
(* record what the loop did and never influence it.                        *)
(*                                                                         *)
(* In the game the call food = spawnFood(snake) is one step that picks any *)
(* of the values the function can return.  SpecSpawn follows one call      *)
(* through its reject-and-retry loop, draw by draw, from the snakes the    *)
(* call can be given.                                                      *)
(***************************************************************************)
EXTENDS Integers, Sequences, FiniteSets, TLC

VARIABLES cols, rows,          \* COLS, ROWS
          body, dir, grow,     \* Snake
          food, moveDelay, gameOver, score, highscore,
          file,                \* highscore.txt: <<>> (missing/unparsable) or <<n>>
          pc,                  \* position in the frame loop, or in spawnFood
          spawnP,              \* the local p of spawnFood
          saves,               \* saveHighscore calls since the session started or ended
          eaten,               \* food consumptions of the current session
          op, pre              \* last operation and the session it started from

session == [body |-> body, dir |-> dir, grow |-> grow, food |-> food,
            moveDelay |-> moveDelay, gameOver |-> gameOver, score |-> score,
            highscore |-> highscore]
vars == <<cols, rows, body, dir, grow, food, moveDelay, gameOver, score,
          highscore, file, pc, spawnP, saves, eaten, op, pre>>

\* ---------------------------------------------------------------- bounds
MaxCells == 6
MaxFood == 4
MaxEaten == 40

\* -------------------------------------------------------------- binary32
TwoTo12 == 4096
TwoTo23 == 8388608
TwoTo24 == 16777216

\* 0.12f, 0.95f, 0.03f
InitialDelay == <<16106127, 27>>
SpeedFactor  == <<15938355, 24>>
MinDelay     == <<16106127, 29>>

\* a < b for positive normalised floats
FloatLess(a, b) == \/ a[2] > b[2]
                   \/ a[2] = b[2] /\ a[1] < b[1]

FloatMax(a, b) == IF FloatLess(a, b) THEN b ELSE a

\* round-to-nearest-even of q + r/d (0 <= r < d, d even)
RoundNearestEven(q, r, d) ==
    IF 2 * r > d \/ (2 * r = d /\ q % 2 = 1) THEN q + 1 ELSE q

\* float product a * b, rounded to binary32; the 48-bit product of the
\* mantissas is H * 2^24 + L, computed on 12-bit halves
FloatMul(a, b) ==
    LET a1 == a[1] \div TwoTo12   a0 == a[1] % TwoTo12
        b1 == b[1] \div TwoTo12   b0 == b[1] % TwoTo12
        mid == a1 * b0 + a0 * b1
        lowFull == (mid % TwoTo12) * TwoTo12 + a0 * b0
        L == lowFull % TwoTo24
        H == a1 * b1 + (mid \div TwoTo12) + (lowFull \div TwoTo24)
        e == a[2] + b[2]
        big == H >= TwoTo23
        m == IF big THEN RoundNearestEven(H, L, TwoTo24)
                    ELSE RoundNearestEven(2 * H + (L \div TwoTo23), L % TwoTo23, TwoTo23)
        ex == IF big THEN e - 24 ELSE e - 23
    IN  IF m = TwoTo24 THEN <<TwoTo23, ex - 1>> ELSE <<m, ex>>

\* the speed-up without the floor
SpeedUpNoFloor(d) == FloatMul(d, SpeedFactor)

\* moveDelay = std::max(0.03f, moveDelay * 0.95f)
SpeedUp(d) == FloatMax(MinDelay, FloatMul(d, SpeedFactor))

\* ------------------------------------------------------------------ grid
None == <<-1, -1>>
Cells == (0 .. cols - 1) \X (0 .. rows - 1)

Add(p, d) == <<p[1] + d[1], p[2] + d[2]>>

\* the wall test with the right and bottom edges off by one
OutOfGridOffByOne(h) == h[1] < 0 \/ h[1] > cols \/ h[2] < 0 \/ h[2] > rows

\* the wall test of the tick
OutOfGrid(h) == h[1] < 0 \/ h[1] >= cols \/ h[2] < 0 \/ h[2] >= rows

\* ----------------------------------------------------------------- Snake
nextHead(b, d) == Add(b[1], d)

\* a move that keeps the growth flag set
moveKeepsFlag(b, d, g) ==
    IF ~g THEN [body |-> <<nextHead(b, d)>> \o SubSeq(b, 1, Len(b) - 1), grow |-> g]
          ELSE [body |-> <<nextHead(b, d)>> \o b, grow |-> g]

\* Snake::move: the body and the growth flag after the move
move(b, d, g) ==
    IF ~g THEN [body |-> <<nextHead(b, d)>> \o SubSeq(b, 1, Len(b) - 1), grow |-> FALSE]
          ELSE [body |-> <<nextHead(b, d)>> \o b, grow |-> FALSE]

\* the self test that stops one segment short of the tail
hitsSelfSkipsTail(b) == \E i \in 2 .. Len(b) - 1 : b[i] = b[1]

hitsSelf(b) == \E i \in 2 .. Len(b) : b[i] = b[1]

occupies(b, p) == \E i \in 1 .. Len(b) : b[i] = p

\* a placement that gives up one cell early
spawnFoodEarlyFull(b) ==
    IF Len(b) >= cols * rows - 1 THEN {None}
    ELSE {p \in Cells : ~occupies(b, p)}

\* a placement that only keeps the food off the head
spawnFoodHeadOnly(b) ==
    IF Len(b) >= cols * rows THEN {None}
    ELSE {p \in Cells : p # b[1]}

\* the values spawnFood can return
spawnFood(b) ==
    IF Len(b) >= cols * rows THEN {None}
    ELSE {p \in Cells : ~occupies(b, p)}

\* resetGame: Snake({COLS/2, ROWS/2})
resetGame == <<<<cols \div 2, rows \div 2>>>>
InitialDir == <<1, 0>>

\* ------------------------------------------------------------- highscore
loadHighscore(f) == IF Len(f) = 1 THEN f[1] ELSE 0

\* the files saveHighscore(s) can leave: written, or untouched when the
\* stream did not open
saveHighscore(s, f) == {<<s>>, f}

\* score >= highscore
beatsHighscoreOrTies(s, h) == s >= h

\* score > highscore
beatsHighscore(s, h) == s > h

\* score += 1
addScoreByOne(s) == s + 1

\* score = 10
addScoreAssigns(s) == 10

\* score += 10
addScore(s) == s + 10

FileInputs == {<<>>, <<15>>}

\* ----------------------------------------------------------------- input
DirKeys == {"Up", "Down", "Left", "Right", "W", "S", "A", "D"}
Keys == DirKeys \cup {"R", "Other"}

\* the key table with a slip in the D line: {1,1}
KeyTargetDiagonal(k) ==
    CASE k \in {"Up", "W"}    -> <<0, -1>>
      [] k \in {"Down", "S"}  -> <<0, 1>>
      [] k \in {"Left", "A"}  -> <<-1, 0>>
      [] k = "Right"          -> <<1, 0>>
      [] k = "D"              -> <<1, 1>>

\* the vector a key assigns to snake.dir
KeyTarget(k) ==
    CASE k \in {"Up", "W"}    -> <<0, -1>>
      [] k \in {"Down", "S"}  -> <<0, 1>>
      [] k \in {"Left", "A"}  -> <<-1, 0>>
      [] k \in {"Right", "D"} -> <<1, 0>>

\* the key table with the S line testing the wrong vector
KeyBlockedSlip(k) ==
    CASE k = "Up"    -> <<0, 1>>
      [] k = "Down"  -> <<0, -1>>
      [] k = "Left"  -> <<1, 0>>
      [] k = "Right" -> <<-1, 0>>
      [] k = "W"     -> <<0, 1>>
      [] k = "S"     -> <<0, 1>>
      [] k = "A"     -> <<1, 0>>
      [] k = "D"     -> <<-1, 0>>

\* the value of snake.dir for which the key is ignored
KeyBlocked(k) ==
    CASE k = "Up"    -> <<0, 1>>
      [] k = "Down"  -> <<0, -1>>
      [] k = "Left"  -> <<1, 0>>
      [] k = "Right" -> <<-1, 0>>
      [] k = "W"     -> <<0, 1>>
      [] k = "S"     -> <<0, -1>>
      [] k = "A"     -> <<1, 0>>
      [] k = "D"     -> <<-1, 0>>

\* ------------------------------------------------------------------ Init
Init ==
    /\ cols \in 2 .. MaxCells
    /\ rows \in 2 .. MaxCells
    /\ cols * rows <= MaxCells
    /\ body = resetGame
    /\ dir = InitialDir
    /\ grow = FALSE
    /\ food \in spawnFood(body)
    /\ moveDelay = InitialDelay
    /\ gameOver = FALSE
    /\ score = 0
    /\ file \in FileInputs
    /\ highscore = loadHighscore(file)
    /\ pc = "poll"
    /\ spawnP = None
    /\ saves = 0
    /\ eaten = 0
    /\ op = "init"
    /\ pre = session

\* --------------------------------------------------------------- actions
\* a restart that keeps the speed of the session that ended
RestartKeepsDelay ==
    /\ body' = resetGame
    /\ dir' = InitialDir
    /\ grow' = FALSE
    /\ food' \in spawnFood(body')
    /\ moveDelay' = moveDelay
    /\ gameOver' = FALSE
    /\ score' = 0
    /\ saves' = 0
    /\ eaten' = 0

\* the R branch of the key handler: a new session
Restart ==
    /\ body' = resetGame
    /\ dir' = InitialDir
    /\ grow' = FALSE
    /\ food' \in spawnFood(body')
    /\ moveDelay' = InitialDelay
    /\ gameOver' = FALSE
    /\ score' = 0
    /\ saves' = 0
    /\ eaten' = 0

\* the key handler without the !gameOver gate around the direction keys
KeyPressedUngated(k) ==
    /\ pc = "poll"
    /\ op' = k
    /\ pre' = session
    /\ IF gameOver /\ k = "R"
       THEN Restart
       ELSE /\ dir' = IF k \in DirKeys /\ dir # KeyBlocked(k)
                      THEN KeyTarget(k) ELSE dir
            /\ UNCHANGED <<body, grow, food, moveDelay, gameOver, score, saves, eaten>>
    /\ UNCHANGED <<spawnP, cols, rows, highscore, file, pc>>

\* ev.type == sf::Event::KeyPressed, one key
KeyPressed(k) ==
    /\ pc = "poll"
    /\ op' = k
    /\ pre' = session
    /\ IF gameOver /\ k = "R"
       THEN Restart
       ELSE /\ dir' = IF ~gameOver /\ k \in DirKeys /\ dir # KeyBlocked(k)
                      THEN KeyTarget(k) ELSE dir
            /\ UNCHANGED <<body, grow, food, moveDelay, gameOver, score, saves, eaten>>
    /\ UNCHANGED <<spawnP, cols, rows, highscore, file, pc>>

\* the frame's events are drained and a tick is due
Tick ==
    /\ pc = "poll"
    /\ ~gameOver
    /\ score <= 10 * MaxFood
    /\ LET moved == move(body, dir, grow)
           h == moved.body[1]
           over == OutOfGrid(h) \/ hitsSelf(moved.body)
           eat == ~over /\ h = food
       IN  /\ body' = moved.body
           /\ gameOver' = over
           /\ grow' = IF eat THEN TRUE ELSE moved.grow
           /\ score' = IF eat THEN addScore(score) ELSE score
           /\ moveDelay' = IF eat THEN SpeedUp(moveDelay) ELSE moveDelay
           /\ IF eat THEN food' \in spawnFood(moved.body) ELSE food' = food
           /\ eaten' = IF eat THEN eaten + 1 ELSE eaten
    /\ pc' = "render"
    /\ saves' = 0
    /\ op' = "tick"
    /\ pre' = session
    /\ UNCHANGED <<spawnP, cols, rows, dir, highscore, file>>

\* the frame's events are drained and no tick happens in this frame
NoTick ==
    /\ pc = "poll"
    /\ pc' = "render"
    /\ op' = "notick"
    /\ pre' = session
    /\ UNCHANGED <<spawnP, cols, rows, body, dir, grow, food, moveDelay, gameOver,
                   score, highscore, file, saves, eaten>>

\* the rest of the frame: drawing, and the high-score update of game over
Render ==
    /\ pc = "render"
    /\ IF gameOver /\ beatsHighscore(score, highscore)
       THEN /\ highscore' = score
            /\ saves' = saves + 1
            /\ file' \in saveHighscore(highscore', file)
       ELSE UNCHANGED <<highscore, saves, file>>
    /\ pc' = "poll"
    /\ op' = "render"
    /\ pre' = session
    /\ UNCHANGED <<spawnP, cols, rows, body, dir, grow, food, moveDelay, gameOver,
                   score, eaten>>

\* the eating block of the tick alone: one more consumption of the session
Consume ==
    /\ ~gameOver
    /\ eaten < MaxEaten
    /\ grow' = TRUE
    /\ score' = addScore(score)
    /\ moveDelay' = SpeedUp(moveDelay)
    /\ food' \in spawnFood(body)
    /\ eaten' = eaten + 1
    /\ op' = "consume"
    /\ pre' = session
    /\ UNCHANGED <<spawnP, cols, rows, body, dir, gameOver, highscore, file, pc, saves>>

\* the session ends and the player restarts
NewSession ==
    /\ eaten > 0
    /\ Restart
    /\ op' = "R"
    /\ pre' = session
    /\ UNCHANGED <<spawnP, cols, rows, highscore, file, pc>>

Next ==
    \/ \E k \in Keys : KeyPressed(k)
    \/ Tick
    \/ NoTick
    \/ Render

Spec == Init /\ [][Next]_vars

\* the tick interval over the consumptions of a session, the moves between
\* them left out
NextSpeed == Consume \/ NewSession

SpecSpeed == Init /\ [][NextSpeed]_vars

\* scenario 1: the grid of the source, the start of a run, and frames
\* without any key event
SourceCols == 40
SourceRows == 30

InitScenario1 ==
    /\ cols = SourceCols
    /\ rows = SourceRows
    /\ body = resetGame
    /\ dir = InitialDir
    /\ grow = FALSE
    /\ food \in spawnFood(body)
    /\ moveDelay = InitialDelay
    /\ gameOver = FALSE
    /\ score = 0
    /\ file = <<>>
    /\ highscore = loadHighscore(file)
    /\ pc = "poll"
    /\ spawnP = None
    /\ saves = 0
    /\ eaten = 0
    /\ op = "init"
    /\ pre = session

NextScenario1 == Tick \/ NoTick \/ Render

SpecScenario1 == InitScenario1 /\ [][NextScenario1]_vars

\* ------------------------------------------------- spawnFood, step by step
\* the snakes of n segments that lie in the grid, head first: contiguous,
\* no cell twice
RECURSIVE Snakes(_)
Snakes(n) ==
    IF n = 1 THEN {<<c>> : c \in Cells}
    ELSE UNION {{<<h>> \o w : h \in {Add(w[1], d) : d \in {<<0, -1>>, <<0, 1>>, <<-1, 0>>, <<1, 0>>}}
                                   \cap (Cells \ {w[i] : i \in 1 .. Len(w)})}
                : w \in Snakes(n - 1)}

\* moveDelay after n consumptions
RECURSIVE DelayAfter(_)
DelayAfter(n) == IF n = 0 THEN InitialDelay ELSE SpeedUp(DelayAfter(n - 1))

\* the call of the tick that ate (src/main.cpp:134): the head is on the food
\* just eaten, the score and the interval are already updated
InitSpawn ==
    /\ cols \in 2 .. MaxCells
    /\ rows \in 2 .. MaxCells
    /\ cols * rows <= MaxCells
    /\ body \in UNION {Snakes(n) : n \in 1 .. cols * rows}
    /\ dir \in {d \in {<<0, -1>>, <<0, 1>>, <<-1, 0>>, <<1, 0>>} :
                  IF Len(body) >= 2 THEN Add(body[2], d) = body[1]
                  ELSE Add(body[1], <<-d[1], -d[2]>>) \in Cells}
    /\ grow = TRUE
    /\ food = body[1]
    /\ eaten = Len(body)
    /\ score = 10 * eaten
    /\ moveDelay = DelayAfter(eaten)
    /\ gameOver = FALSE
    /\ file = <<>>
    /\ highscore = loadHighscore(file)
    /\ pc = "spawn"
    /\ spawnP = None
    /\ saves = 0
    /\ op = "tick"
    /\ pre = session

\* if ((int)snake.body.size() >= COLS * ROWS) return {-1,-1};
SpawnEnter ==
    /\ pc = "spawn"
    /\ IF Len(body) >= cols * rows
       THEN food' = None /\ pc' = "returned"
       ELSE food' = food /\ pc' = "draw"
    /\ op' = "spawn"
    /\ UNCHANGED <<spawnP, cols, rows, body, dir, grow, moveDelay, gameOver,
                   score, highscore, file, saves, eaten, pre>>

\* p = {dx(rng), dy(rng)}, the draw being c
SpawnDraw(c) ==
    /\ pc = "draw"
    /\ c \in Cells
    /\ spawnP' = c
    /\ pc' = "while"
    /\ op' = "draw"
    /\ UNCHANGED <<cols, rows, body, dir, grow, food, moveDelay, gameOver,
                   score, highscore, file, saves, eaten, pre>>

\* the loop test with the condition negated
SpawnWhileNegated ==
    /\ pc = "while"
    /\ IF ~occupies(body, spawnP)
       THEN food' = food /\ pc' = "draw"
       ELSE food' = spawnP /\ pc' = "returned"
    /\ op' = "while"
    /\ UNCHANGED <<spawnP, cols, rows, body, dir, grow, moveDelay, gameOver,
                   score, highscore, file, saves, eaten, pre>>

\* while (snake.occupies(p)); return p;
SpawnWhile ==
    /\ pc = "while"
    /\ IF occupies(body, spawnP)
       THEN food' = food /\ pc' = "draw"
       ELSE food' = spawnP /\ pc' = "returned"
    /\ op' = "while"
    /\ UNCHANGED <<spawnP, cols, rows, body, dir, grow, moveDelay, gameOver,
                   score, highscore, file, saves, eaten, pre>>

NextSpawn ==
    \/ SpawnEnter
    \/ \E c \in Cells : SpawnDraw(c)
    \/ SpawnWhile

\* every position dx(rng), dy(rng) can give, on any of the grids
MaxSide == MaxCells \div 2
DrawCells == (0 .. MaxSide - 1) \X (0 .. MaxSide - 1)

\* the function runs on; a fair generator gives each position again and
\* again
FairSpawn ==
    /\ WF_vars(SpawnEnter)
    /\ WF_vars(SpawnWhile)
    /\ \A c \in DrawCells : SF_vars(SpawnDraw(c))

SpecSpawn == InitSpawn /\ [][NextSpawn]_vars /\ FairSpawn

TypeOK ==
    /\ pc \in {"poll", "render", "spawn", "draw", "while", "returned"}
    /\ Len(body) >= 1
    /\ score \in 0 .. 10 * (MaxFood + 1)
    /\ gameOver \in BOOLEAN
\* ================================================================ claims
Segments(b) == {b[i] : i \in 1 .. Len(b)}
TailCell(b) == b[Len(b)]
Neg(d) == <<-d[1], -d[2]>>

\* the segments still on the board when the new head arrives: all of them
\* when growth is pending, all but the tail otherwise
Remaining(b, g) == {b[i] : i \in 1 .. (IF g THEN Len(b) ELSE Len(b) - 1)}

\* C1 - wall collision: a tick fired in Playing ends the session because of
\* the wall exactly when the new head lies outside [0, cols) x [0, rows); a
\* tick whose new head is inside the grid and on no other segment leaves the
\* session Playing.
C1_WallCollision ==
    [][op' = "tick" =>
        LET h == Add(body[1], dir)
        IN  /\ ~gameOver
            /\ body'[1] = h
            /\ h \notin Cells => gameOver'
            /\ (gameOver' /\ h \notin Segments(SubSeq(body', 2, Len(body')))) => h \notin Cells
            /\ (h \in Cells /\ \A i \in 2 .. Len(body') : body'[i] # h) => ~gameOver'
    ]_vars

C1_Witness ==
    /\ op = "tick"
    /\ gameOver
    /\ body[1] \notin Cells
    /\ body[1][1] = cols
    /\ \A i \in 2 .. Len(body) : body[i] # body[1]

\* C2 - self collision: on a tick fired in Playing the snake hits itself, and
\* the session ends, exactly when the new head lands on a segment that is
\* still on the board after the advance; the cell the tail has just left is
\* free when no growth is pending and occupied when growth is pending.
C2_SelfCollision ==
    [][op' = "tick" =>
        LET h == Add(body[1], dir)
            hit == h \in Remaining(body, grow)
        IN  /\ hit <=> (\E i \in 2 .. Len(body') : body'[i] = body'[1])
            /\ hit => gameOver'
            /\ gameOver' => (hit \/ h \notin Cells)
            /\ (h = TailCell(body) /\ h \notin Remaining(body, FALSE) /\ h \in Cells)
                   => (gameOver' <=> grow)
    ]_vars

C2_Witness ==
    /\ op = "tick"
    /\ pre.grow
    /\ Len(pre.body) >= 2
    /\ body[1] = TailCell(pre.body)
    /\ body[1] \notin Remaining(pre.body, FALSE)
    /\ gameOver

\* the intent of a direction key and its unit vector (y grows downwards)
Intent(k) ==
    CASE k \in {"Up", "W"}    -> "up"
      [] k \in {"Down", "S"}  -> "down"
      [] k \in {"Left", "A"}  -> "left"
      [] k \in {"Right", "D"} -> "right"

UnitVector(i) ==
    CASE i = "up"    -> <<0, -1>>
      [] i = "down"  -> <<0, 1>>
      [] i = "left"  -> <<-1, 0>>
      [] i = "right" -> <<1, 0>>

\* C3 - heading change: a directional request received in Playing that is the
\* exact reverse of the current heading leaves the heading unchanged; any
\* other request makes the heading the requested unit vector.
C3_HeadingChange ==
    [][\A k \in DirKeys : (op' = k /\ ~gameOver) =>
        LET r == UnitVector(Intent(k))
        IN  dir' = IF r = Neg(dir) THEN dir ELSE r
    ]_vars

C3_Witness ==
    /\ op = "S"
    /\ ~gameOver
    /\ pre.dir = <<0, -1>>
    /\ dir = <<0, -1>>
    /\ Len(body) >= 2

\* C4 - advance and length: an advance with the growth flag clear keeps the
\* body length, an advance with the flag set adds exactly one segment and
\* clears the flag (the flag is set after the tick only if that tick ate);
\* the new head is the old head plus the heading; within a session nothing
\* else changes the length.
C4_AdvanceLength ==
    [][/\ op' = "tick" =>
            /\ Len(body') = Len(body) + (IF grow THEN 1 ELSE 0)
            /\ body'[1] = Add(body[1], dir)
            /\ \A i \in 2 .. Len(body') : body'[i] = body[i - 1]
            /\ grow' <=> (eaten' = eaten + 1)
       /\ Len(body') # Len(body) => (op' = "tick" \/ (op' = "R" /\ gameOver))
    ]_vars

C4_Witness ==
    /\ op = "tick"
    /\ pre.grow
    /\ ~grow
    /\ ~gameOver
    /\ Len(body) = Len(pre.body) + 1
    /\ Len(body) >= 3

\* C5 - food never overlaps the snake: in every reachable state the food is
\* the sentinel (-1,-1) or a cell of the grid that no segment occupies.
C5_FoodOffSnake ==
    \/ food = <<-1, -1>>
    \/ /\ food \in Cells
       /\ food \notin Segments(body)

C5_Witness ==
    /\ op = "tick"
    /\ pre.grow
    /\ pre.score # score
    /\ Len(body) >= 3
    /\ food \in Cells
\* the last step called spawnFood: start-up, restart, or a tick that ate
Spawned ==
    \/ op = "init"
    \/ op = "R" /\ pre.gameOver
    \/ op = "tick" /\ eaten # 0 /\ score # pre.score

\* C6 - board-full sentinel: food placement returns none exactly when the
\* snake is cols x rows long at the call; then the snake covers every cell,
\* and when a position is returned some cell was free.
C6_BoardFullSentinel ==
    Spawned =>
        /\ food = <<-1, -1>> <=> Len(body) = cols * rows
        /\ food = <<-1, -1>> => Cells \subseteq Segments(body)
        /\ food # <<-1, -1>> => food \in Cells \ Segments(body)

C6_Witness ==
    /\ op = "tick"
    /\ score # pre.score
    /\ food = <<-1, -1>>
    /\ Len(body) = cols * rows
    /\ ~gameOver

\* a tick step whose new head is the food and that leaves the session Playing
Consumes == op' = "tick" /\ body'[1] = food /\ ~gameOver'

\* C7 - score: 0 at the start, +10 on each tick whose new head is the food
\* while the session stays Playing, changed by nothing else but restart
\* (back to 0); so it is 10 times the consumptions of the session.
C7_Score ==
    /\ [](/\ op = "init" => score = 0
          /\ score >= 0
          /\ score % 10 = 0
          /\ score = 10 * eaten)
    /\ [][/\ Consumes => (score' = score + 10 /\ eaten' = eaten + 1)
          /\ score' # score => (Consumes \/ (op' = "R" /\ gameOver /\ score' = 0))
          /\ eaten' # eaten => (Consumes \/ (op' = "R" /\ gameOver /\ eaten' = 0))
       ]_vars

C7_Witness ==
    /\ op = "tick"
    /\ body[1] = pre.food
    /\ pre.score = 10
    /\ score = 20
    /\ eaten = 2

\* C9 - high-score policy: the frame that enters GameOver calls save once if
\* the score is above the high score, and not otherwise; the call sets the
\* in-memory high score to the score and hands that value to the file; no
\* save while Playing, no second save while the session stays in GameOver.
C9_HighscorePolicy ==
    /\ [](/\ saves <= 1
          /\ ~gameOver => saves = 0
          /\ (gameOver /\ pc = "poll") => score <= highscore
          /\ saves = 1 => highscore = score)
    /\ [][/\ (op' = "render" /\ op = "tick" /\ gameOver) =>
                /\ saves = 0
                /\ saves' = IF score > highscore THEN 1 ELSE 0
          /\ saves' = saves + 1 =>
                /\ op' = "render"
                /\ gameOver
                /\ score > highscore
                /\ highscore' = score
                /\ file' \in {<<score>>, file}
          /\ (highscore' # highscore \/ file' # file) => saves' = saves + 1
       ]_vars

C9_Witness ==
    /\ op = "render"
    /\ gameOver
    /\ saves = 1
    /\ pre.highscore = 15
    /\ score = 20
    /\ highscore = 20
    /\ file = <<20>>

\* the float nearest to 12/100
IsTwelveHundredths(d) ==
    /\ d[2] = 27
    /\ TwoTo23 <= d[1] /\ d[1] < TwoTo24
    /\ 100 * d[1] - 1610612736 <= 50
    /\ 1610612736 - 100 * d[1] <= 50

\* C10 - reset: the restart key is ignored in Playing; in GameOver it puts
\* the session in the initial Playing state: one segment at the centre
\* (cols/2, rows/2), heading (1,0), growth flag clear, score 0, tick interval
\* 0.12, fresh food off the snake; the in-memory high score is kept.
C10_Reset ==
    [][op' = "R" =>
        IF gameOver
        THEN /\ ~gameOver'
             /\ body' = <<<<cols \div 2, rows \div 2>>>>
             /\ dir' = <<1, 0>>
             /\ ~grow'
             /\ score' = 0
             /\ IsTwelveHundredths(moveDelay')
             /\ food' \in Cells /\ food' # body'[1]
             /\ highscore' = highscore
        ELSE UNCHANGED <<body, dir, grow, food, moveDelay, gameOver, score, highscore>>
    ]_vars

C10_Witness ==
    /\ op = "R"
    /\ pre.gameOver
    /\ Len(pre.body) >= 3
    /\ pre.dir # <<1, 0>>
    /\ pre.score >= 20
    /\ pre.moveDelay # moveDelay
    /\ highscore = pre.highscore
    /\ highscore >= 20
    /\ ~gameOver
    /\ Len(body) = 1
    /\ score = 0
\* ---- exact arithmetic on naturals of any size: little-endian sequences of
\* ---- base-10000 digits without leading zeros, <<>> for 0
RECURSIVE BigCarry(_)
BigCarry(c) == IF c = 0 THEN <<>> ELSE <<c % 10000>> \o BigCarry(c \div 10000)

RECURSIVE BigMulC(_, _, _)
BigMulC(a, k, c) ==
    IF a = <<>> THEN BigCarry(c)
    ELSE LET t == a[1] * k + c
         IN  <<t % 10000>> \o BigMulC(Tail(a), k, t \div 10000)

\* a * k for 0 < k <= 100000
BigMul(a, k) == BigMulC(a, k, 0)

RECURSIVE BigAddC(_, _, _)
BigAddC(a, b, c) ==
    IF a = <<>> /\ b = <<>> THEN BigCarry(c)
    ELSE LET x == IF a = <<>> THEN 0 ELSE a[1]
             y == IF b = <<>> THEN 0 ELSE b[1]
             t == x + y + c
         IN  <<t % 10000>> \o BigAddC(IF a = <<>> THEN a ELSE Tail(a),
                                      IF b = <<>> THEN b ELSE Tail(b),
                                      t \div 10000)

BigAdd(a, b) == BigAddC(a, b, 0)

RECURSIVE BigLessFrom(_, _, _)
BigLessFrom(a, b, i) ==
    IF i = 0 THEN FALSE
    ELSE IF a[i] # b[i] THEN a[i] < b[i]
    ELSE BigLessFrom(a, b, i - 1)

BigLess(a, b) ==
    IF Len(a) # Len(b) THEN Len(a) < Len(b) ELSE BigLessFrom(a, b, Len(a))

BigLeq(a, b) == ~BigLess(b, a)

RECURSIVE BigTimesPow(_, _, _)
\* a * k^n
BigTimesPow(a, k, n) ==
    IF n = 0 THEN a
    ELSE LET b == BigMul(a, k)
         IN  IF Len(b) >= 0 THEN BigTimesPow(b, k, n - 1) ELSE b

\* a * m for a mantissa m < 2^24
BigMulMantissa(a, m) ==
    BigAdd(BigMul(BigMul(a, m \div TwoTo12), TwoTo12), BigMul(a, m % TwoTo12))

\* |x - y| * k <= z
BigWithin(x, y, k, z) ==
    IF BigLess(x, y) THEN BigLeq(BigMul(y, k), BigAdd(BigMul(x, k), z))
                     ELSE BigLeq(BigMul(x, k), BigAdd(BigMul(y, k), z))

\* the real interval of the claim after n consumptions, as a fraction:
\* max(3/100, 12/100 * (95/100)^n) = RealNum(n) / RealDen(n)
BelowFloor(n) ==
    \* 12 * 95^n * 100 < 3 * 100^(n+1)
    BigLess(BigTimesPow(<<1200>>, 95, n), BigTimesPow(<<300>>, 100, n))
RealNum(n) == IF BelowFloor(n) THEN <<3>> ELSE BigTimesPow(<<12>>, 95, n)
RealDen(n) == IF BelowFloor(n) THEN <<100>> ELSE BigTimesPow(<<100>>, 100, n)

\* |d - RealNum/RealDen| * k <= RealNum/RealDen * j / 2^s, for d = m / 2^e:
\* |m * Den - Num * 2^e| * k * 2^s <= Num * 2^e * j
ErrorWithin(d, n, k, s, j) ==
    LET lhs == BigMulMantissa(RealDen(n), d[1])
        rhs == BigTimesPow(RealNum(n), 2, d[2])
    IN  BigWithin(BigTimesPow(lhs, 2, s), BigTimesPow(rhs, 2, s), k, BigMul(rhs, j))

\* d is the float nearest to the real interval after n consumptions:
\* |2 m * Den - Num * 2^(e+1)| <= Den
NearestFloat(d, n) ==
    LET lhs == BigMul(BigMulMantissa(RealDen(n), d[1]), 2)
        rhs == BigTimesPow(RealNum(n), 2, d[2] + 1)
    IN  BigWithin(lhs, rhs, 1, RealDen(n))

\* the float is the correctly rounded product of d and 0.95f, or the floor
\* when that product is below it: |r - d * 0.95f| <= ulp(r) / 2
RoundedProduct(r, d) ==
    LET lhs == BigTimesPow(BigCarry(r[1]), 2, d[2] + SpeedFactor[2] - r[2] + 1)
        rhs == BigMul(BigMulMantissa(BigCarry(d[1]), SpeedFactor[1]), 2)
    IN  BigWithin(lhs, rhs, 1, BigTimesPow(<<1>>, 2, d[2] + SpeedFactor[2] - r[2]))

\* the exact product d * 0.95f is below the float 0.03f = 16106127 / 2^29:
\* m * 15938355 * 2^29 < 16106127 * 2^(e + 24)
ProductBelowFloor(d) ==
    BigLess(BigTimesPow(BigMulMantissa(BigCarry(d[1]), SpeedFactor[1]), 2, 29),
            BigTimesPow(BigCarry(16106127), 2, d[2] + SpeedFactor[2]))

\* C8 as stated - after n consumptions the tick interval equals
\* max(0.03, 0.12 * 0.95^n), read at float precision: the interval is the
\* float nearest to that real number.
C8_AsStated == NearestFloat(moveDelay, eaten)

\* C8 - tick interval: after n consumptions the interval is max(0.03, 0.12 *
\* 0.95^n) up to float rounding (relative error below 2^-21); each
\* consumption multiplies it by 0.95f, rounded to a float, and clamps it to
\* the float 0.03f; it never increases within a session, never falls below
\* 0.03f, and sits on that floor exactly from the 28th consumption on.
C8_TickInterval ==
    /\ [](/\ ErrorWithin(moveDelay, eaten, 1, 21, 1)
          /\ ~FloatLess(moveDelay, <<16106127, 29>>)
          /\ moveDelay = <<16106127, 29>> <=> eaten >= 28
          /\ TwoTo23 <= moveDelay[1] /\ moveDelay[1] < TwoTo24)
    /\ [][/\ op' = "consume" =>
                IF ProductBelowFloor(moveDelay)
                THEN moveDelay' = <<16106127, 29>>
                ELSE RoundedProduct(moveDelay', moveDelay)
          /\ op' # "R" => ~FloatLess(moveDelay, moveDelay')
       ]_vars

C8_Witness ==
    /\ op = "consume"
    /\ eaten = 28
    /\ moveDelay = <<16106127, 29>>
    /\ pre.moveDelay # moveDelay
\* the food lies on the cells the head still has to cross on its way right
FoodAhead == food[2] = body[1][2] /\ food[1] > body[1][1]

\* C11 as stated - scenario 1 on the 40 x 30 grid, no heading change: the
\* head runs right from (20,15), the session is over exactly when the head
\* is at x = 40, and the score remains 0 wherever the food was placed.
C11_AsStated ==
    /\ body[1][2] = 15
    /\ gameOver <=> body[1][1] = 40
    /\ score = 0

\* C11 - scenario 1 on the 40 x 30 grid, no heading change: every tick moves
\* the head one cell right from (20,15); the session is Playing while the
\* head is at x <= 39 (the first 19 ticks) and over exactly when it is at
\* x = 40 (the 20th tick), wherever the food is; the score remains 0 as long
\* as no food lies on row 15 ahead of the head, and is positive once the
\* head has crossed a food.
C11_Scenario1 ==
    /\ [](/\ cols = 40 /\ rows = 30
          /\ dir = <<1, 0>>
          /\ body[1][2] = 15
          /\ body[1][1] \in 20 .. 40
          /\ op = "init" => body = <<<<20, 15>>>>
          /\ gameOver <=> body[1][1] = 40
          /\ score = 10 * (Len(body) - 1 + (IF grow THEN 1 ELSE 0)))
    /\ [][/\ op' = "tick" => body'[1] = <<body[1][1] + 1, 15>>
          /\ op' # "tick" => body' = body
          /\ (score = 0 /\ ~FoodAhead) => (score' = 0 /\ food' = food)
          /\ (op' = "tick" /\ FoodAhead /\ food[1] = body[1][1] + 1) => score' = score + 10
       ]_vars

C11_Witness ==
    /\ op = "tick"
    /\ gameOver
    /\ body = <<<<40, 15>>>>
    /\ score = 0
    /\ food[2] = 15
    /\ food[1] < 20
\* a fresh session (one segment, nothing eaten) with the food on the cell
\* directly ahead of the head, and a tick
Scenario2 ==
    /\ op' = "tick"
    /\ Len(body) = 1
    /\ score = 0
    /\ ~grow
    /\ IsTwelveHundredths(moveDelay)
    /\ food = Add(body[1], dir)

\* C12 as stated - scenario 2: with the food directly ahead of the initial
\* one-segment snake, one tick puts the head on the food, makes the score 10,
\* the length 2 and the interval 0.114.
C12_AsStated ==
    [][Scenario2 =>
        /\ body'[1] = food
        /\ score' = 10
        /\ Len(body') = 2
        /\ NearestFloat(moveDelay', 1)
    ]_vars

\* C12 - scenario 2: with the food directly ahead of the initial one-segment
\* snake, one tick puts the head on the food and makes the score 10; the
\* snake still has one segment and its growth flag is set, so that the next
\* tick makes the length 2; the interval becomes 0.12f * 0.95f, which is
\* 0.114 up to float rounding (relative error below 2^-23).
C12_Scenario2 ==
    [][/\ Scenario2 =>
            /\ ~gameOver'
            /\ body'[1] = food
            /\ score' = 10
            /\ Len(body') = 1
            /\ grow'
            /\ RoundedProduct(moveDelay', moveDelay)
            /\ ErrorWithin(moveDelay', 1, 1, 23, 1)
            /\ food' # food
       /\ (op' = "tick" /\ Len(body) = 1 /\ score = 10 /\ grow) =>
            /\ Len(body') = 2
            /\ body'[2] = body[1]
    ]_vars

C12_Witness ==
    /\ op = "tick"
    /\ pre.body = <<<<cols \div 2, rows \div 2>>>>
    /\ pre.dir = <<1, 0>>
    /\ pre.score = 0
    /\ pre.food = Add(pre.body[1], pre.dir)
    /\ body = <<pre.food>>
    /\ score = 10
    /\ grow
    /\ ~gameOver
\* C13 - GameOver is frozen but not a dead end: in GameOver no tick fires and
\* every step other than the reset leaves body, heading, growth flag, food,
\* score, tick interval and the status unchanged; in every GameOver state the
\* event loop can take the reset (after the frame's render, if that is still
\* due), and the reset leads to the Playing initial state.
C13_GameOverFrozen ==
    /\ [](gameOver =>
            /\ pc = "render" => ENABLED Render
            /\ pc = "poll" => ENABLED KeyPressed("R"))
    /\ [][gameOver =>
            /\ op' # "tick"
            /\ op' # "R" =>
                 /\ gameOver'
                 /\ UNCHANGED <<body, dir, grow, food, score, moveDelay>>
            /\ op' = "R" =>
                 /\ ~gameOver'
                 /\ body' = resetGame
                 /\ dir' = InitialDir
                 /\ ~grow'
                 /\ score' = 0
                 /\ moveDelay' = InitialDelay
                 /\ food' \in Cells \ {body'[1]}
                 /\ pc' = "poll"
       ]_vars

\* a direction key that would have turned a playing snake arrived in GameOver
C13_Witness ==
    /\ gameOver
    /\ pre.gameOver
    /\ op \in DirKeys
    /\ KeyTarget(op) # dir
    /\ KeyBlocked(op) # dir
    /\ session = pre
\* the heading the previous advance used, read off a snake of two or more
\* segments: the step from the segment behind the head to the head
LastStep(b) == <<b[1][1] - b[2][1], b[1][2] - b[2][2]>>

\* C14 - reversal prevention across ticks: whatever redirect requests arrive
\* between two consecutive ticks in Playing, the heading used by the later
\* advance is never the exact reverse of the heading used by the previous
\* advance, so the head never moves into the cell of the segment directly
\* behind it.
C14_NoReversal ==
    [][(op' = "tick" /\ Len(body) >= 2) =>
        /\ dir # Neg(LastStep(body))
        /\ body'[1] # body[2]
    ]_vars
\* C15 - no duplicates while alive: in every Playing state no two segments
\* of the body are on the same cell (also right after a growth tick, where
\* the tail was retained) and every segment lies inside the grid.
C15_NoDuplicates ==
    ~gameOver =>
        /\ \A i, j \in 1 .. Len(body) : body[i] = body[j] => i = j
        /\ \A i \in 1 .. Len(body) : ~OutOfGrid(body[i])

\* a playing snake of three or more segments right after a growth tick
C15_Witness ==
    /\ ~gameOver
    /\ op = "tick"
    /\ pre.grow
    /\ Len(body) = Len(pre.body) + 1
    /\ Len(body) >= 3
    /\ body[Len(body)] = pre.body[Len(pre.body)]
Abs(n) == IF n < 0 THEN -n ELSE n

\* one step apart in exactly one axis
Adjacent(p, q) == Abs(p[1] - q[1]) + Abs(p[2] - q[2]) = 1

\* C16 - body contiguity: in every reachable state, Playing or GameOver,
\* consecutive body segments differ by exactly one step in exactly one axis,
\* and the heading is one of the four unit axis vectors.
C16_Contiguity ==
    /\ \A i \in 1 .. Len(body) - 1 : Adjacent(body[i], body[i + 1])
    /\ dir \in {<<0, -1>>, <<0, 1>>, <<-1, 0>>, <<1, 0>>}

\* a snake of three or more segments that grew on its last tick, ran into
\* the wall on that tick and had turned since the start of the session
C16_Witness ==
    /\ gameOver
    /\ op = "tick"
    /\ pre.grow
    /\ Len(body) = Len(pre.body) + 1
    /\ Len(body) >= 3
    /\ OutOfGrid(body[1])
    /\ dir # <<1, 0>>
\* C17 - a fatal tick consumes nothing: a tick that ends in GameOver (wall or
\* self collision) stops before the food rule: score, tick interval and food
\* are those of before the tick and the growth flag is the cleared flag the
\* advance left; food is consumed only on ticks that leave the session
\* Playing.
C17_FatalTick ==
    [][/\ (op' = "tick" /\ gameOver') =>
            /\ body'[1] = Add(body[1], dir)
            /\ OutOfGrid(body'[1]) \/ body'[1] \in Remaining(body, grow)
            /\ score' = score
            /\ moveDelay' = moveDelay
            /\ food' = food
            /\ ~grow'
            /\ eaten' = eaten
       /\ (op' = "tick" /\ (eaten' # eaten \/ score' # score \/ food' # food
                            \/ moveDelay' # moveDelay \/ grow')) =>
            ~gameOver'
    ]_vars

\* the tick on which a snake that was about to grow ran into itself
C17_Witness ==
    /\ op = "tick"
    /\ gameOver
    /\ ~pre.gameOver
    /\ pre.grow
    /\ hitsSelf(body)
    /\ ~OutOfGrid(body[1])
    /\ score = pre.score
    /\ score > 0
    /\ food = pre.food
    /\ food # None
    /\ ~grow
\* C18 - food placement terminates: whenever some cell of the grid is free
\* of the snake, the reject-and-retry loop of spawnFood returns, under a
\* fair random choice, and returns a free cell; the call never modifies the
\* snake.
C18_SpawnTerminates ==
    /\ (pc = "spawn" /\ Cells \ Segments(body) # {})
           ~> (pc = "returned" /\ food \in spawnFood(body) /\ food # None)
    /\ [][body' = body /\ grow' = grow /\ dir' = dir]_vars

\* the call returned the only free cell of the grid
C18_Witness ==
    /\ pc = "returned"
    /\ op = "while"
    /\ Len(body) = cols * rows - 1
    /\ food = spawnP
    /\ Cells \ Segments(body) = {food}
\* C19 - board full: once food placement has returned none (the snake then
\* covers the whole grid and is about to grow), the food stays none and
\* nothing is placed or consumed, score and tick interval unchanged, until a
\* reset; the session cannot keep Playing: the next tick ends in GameOver.
C19_BoardFull ==
    /\ [](food = None =>
            /\ Segments(body) \cap Cells = Cells
            /\ ~gameOver => (grow /\ Len(body) = cols * rows))
    /\ [][food = None =>
            /\ ~(op' = "R" /\ gameOver) =>
                 /\ food' = None
                 /\ score' = score
                 /\ moveDelay' = moveDelay
                 /\ eaten' = eaten
            /\ (op' = "R" /\ gameOver) => (food' \in Cells /\ score' = 0)
            /\ op' = "tick" => gameOver'
       ]_vars

\* the tick that follows the filling of the board
C19_Witness ==
    /\ op = "tick"
    /\ ~pre.gameOver
    /\ pre.food = None
    /\ Len(pre.body) = cols * rows
    /\ gameOver
    /\ food = None
    /\ score = pre.score
    /\ score = 10 * cols * rows
\* C20 - length/score coupling: in every reachable state the body length,
\* plus 1 if the growth flag is set, equals 1 + score/10: each consumption
\* lengthens the snake by exactly one segment, on the tick after the one
\* that consumed it.
C20_LengthScore ==
    /\ score % 10 = 0
    /\ Len(body) + (IF grow THEN 1 ELSE 0) = 1 + score \div 10

\* right after the third consumption: three segments, the fourth pending
C20_Witness ==
    /\ op = "tick"
    /\ ~gameOver
    /\ body[1] = pre.food
    /\ grow
    /\ ~pre.grow
    /\ Len(body) = 3
    /\ score = 30
====
